---- MODULE Spec2Model ----
(***************************************************************************)
(* MHTCET college preference generator (app/utils.py, app/main.py).        *)
(*                                                                         *)
(* Two specifications share this module:                                   *)
(*   SpecScore  the two pure scoring functions, applied to inputs drawn    *)
(*              from bounded sets;                                         *)
(*   Spec       the request pipeline: load_data, the filters, scoring,     *)
(*              sorting, numbering and the histogram of                    *)
(*              generate_preference_list, called directly or through the   *)
(*              /api/predict handler.                                      *)
(* Ranks, cutoffs and probabilities are integers: the CSV holds whole      *)
(* ranks and every probability the code returns is a whole number.         *)
(***************************************************************************)
EXTENDS Integers, Sequences, FiniteSets, TLC

VARIABLES
    s_pc,       \* scorer: "calculate", "interpret" or "done"
    s_rank,     \* scorer: student_rank argument (0 when only interpreting)
    s_cutoff,   \* scorer: cutoff_rank argument
    s_prob,     \* scorer: probability (the result of calculate, or an input)
    s_label,    \* scorer: label returned by get_probability_interpretation
    csv,        \* MHTCET_cutoff2024.csv: [exists, rows]; never written
    csv0,       \* history: the file as it was when the process started
    earlier,    \* history: some call has been served and has returned
    phase,      \* server: "idle" or "responded"
    request,    \* arguments of the call being served
    response    \* what the call returned

vars == <<s_pc, s_rank, s_cutoff, s_prob, s_label,
          csv, csv0, earlier, phase, request, response>>

scorer_vars == <<s_pc, s_rank, s_cutoff, s_prob, s_label>>
server_vars == <<csv, csv0, earlier, phase, request, response>>

----------------------------------------------------------------------------
(* Bounds of the model *)

MaxScoreRank == 4000     \* student ranks 1..MaxScoreRank reach the scorer
MaxProbability == 100    \* probabilities 0..MaxProbability reach the labeller
MaxRows == 3             \* rows in the CSV file

(* Program constants *)

Sentinel == 999999       \* fillna(999999): "no cutoff data"

----------------------------------------------------------------------------
(* Probability scorer *)

abs(x) == IF x < 0 THEN -x ELSE x

\* Mutant: the gap is taken the wrong way round (cutoff - student).
calculate_admission_probability_flipped(student_rank, cutoff_rank) ==
    IF cutoff_rank = Sentinel \/ cutoff_rank = 0 THEN 0
    ELSE LET rank_difference == cutoff_rank - student_rank IN
         IF rank_difference <= 0
         THEN LET abs_difference == abs(rank_difference) IN
              IF abs_difference >= 800 THEN 95
              ELSE IF abs_difference >= 500 THEN 90
              ELSE IF abs_difference >= 300 THEN 85
              ELSE IF abs_difference >= 100 THEN 80
              ELSE 75
         ELSE IF rank_difference <= 200 THEN 60
              ELSE IF rank_difference <= 500 THEN 45
              ELSE IF rank_difference <= 1000 THEN 30
              ELSE IF rank_difference <= 1500 THEN 20
              ELSE IF rank_difference <= 2000 THEN 10
              ELSE IF rank_difference <= 3000 THEN 5
              ELSE 0

\* Mutant: the top margin test is strict (> 800 instead of >= 800).
calculate_admission_probability_strict(student_rank, cutoff_rank) ==
    IF cutoff_rank = Sentinel \/ cutoff_rank = 0 THEN 0
    ELSE LET rank_difference == student_rank - cutoff_rank IN
         IF rank_difference <= 0
         THEN LET abs_difference == abs(rank_difference) IN
              IF abs_difference > 800 THEN 95
              ELSE IF abs_difference >= 500 THEN 90
              ELSE IF abs_difference >= 300 THEN 85
              ELSE IF abs_difference >= 100 THEN 80
              ELSE 75
         ELSE IF rank_difference <= 200 THEN 60
              ELSE IF rank_difference <= 500 THEN 45
              ELSE IF rank_difference <= 1000 THEN 30
              ELSE IF rank_difference <= 1500 THEN 20
              ELSE IF rank_difference <= 2000 THEN 10
              ELSE IF rank_difference <= 3000 THEN 5
              ELSE 0

\* utils.py 105-157. pd.isna(cutoff_rank) is not modelled: load_data fills
\* every NaN with 999999 before a cutoff reaches this function.
calculate_admission_probability(student_rank, cutoff_rank) ==
    IF cutoff_rank = Sentinel \/ cutoff_rank = 0 THEN 0
    ELSE LET rank_difference == student_rank - cutoff_rank IN
         IF rank_difference <= 0
         THEN LET abs_difference == abs(rank_difference) IN
              IF abs_difference >= 800 THEN 95
              ELSE IF abs_difference >= 500 THEN 90
              ELSE IF abs_difference >= 300 THEN 85
              ELSE IF abs_difference >= 100 THEN 80
              ELSE 75
         ELSE IF rank_difference <= 200 THEN 60
              ELSE IF rank_difference <= 500 THEN 45
              ELSE IF rank_difference <= 1000 THEN 30
              ELSE IF rank_difference <= 1500 THEN 20
              ELSE IF rank_difference <= 2000 THEN 10
              ELSE IF rank_difference <= 3000 THEN 5
              ELSE 0

\* Mutant: the top tier starts above 85 (> 85 instead of >= 85).
get_probability_interpretation_strict(probability) ==
    IF probability > 85 THEN "Very High Chance"
    ELSE IF probability >= 70 THEN "High Chance"
    ELSE IF probability >= 50 THEN "Good Chance"
    ELSE IF probability >= 30 THEN "Moderate Chance"
    ELSE IF probability >= 15 THEN "Low Chance"
    ELSE IF probability > 0 THEN "Very Low Chance"
    ELSE "No Chance"

\* utils.py 159-182
get_probability_interpretation(probability) ==
    IF probability >= 85 THEN "Very High Chance"
    ELSE IF probability >= 70 THEN "High Chance"
    ELSE IF probability >= 50 THEN "Good Chance"
    ELSE IF probability >= 30 THEN "Moderate Chance"
    ELSE IF probability >= 15 THEN "Low Chance"
    ELSE IF probability > 0 THEN "Very Low Chance"
    ELSE "No Chance"

\* Cutoff ranks handed to the scorer: no data (0, sentinel), the best rank,
\* and two cutoffs that put every breakpoint of the table inside
\* 1..MaxScoreRank.
ScoreCutoffs == {0, 1, 200, 900, Sentinel}

----------------------------------------------------------------------------
(* The dataset: MHTCET_cutoff2024.csv as pd.read_csv returns it. A row is  *)
(* [BranchName, Quota, Category, SeatType: text; Round: integer;           *)
(*  CutoffRank: a cell that parses as the number val, or does not parse]   *)

Number(n) == [num |-> TRUE, val |-> n]
Unparsable == [num |-> FALSE, val |-> 0]

RawRow(branch, quota, category, seat_type, round, cutoff) ==
    [BranchName |-> branch, Quota |-> quota, Category |-> category,
     SeatType |-> seat_type, Round |-> round, CutoffRank |-> cutoff]

\* Rows a file is made of. For student rank 1000 the cutoffs 1800 and 2500
\* tie at 95 and 900 scores 60. Each of the quota, category, seat type and
\* round filters has one row of its own to drop; one quota is padded with a
\* blank, one row has cutoff 0 and one has no cutoff. Two rows name the
\* same branch, one of them padded with a blank.
RowPool ==
    { RawRow("Mechanical Engineering", " General", "Open", "Home University", 1, Number(2500)),
      RawRow("Civil Engineering", "General", "SC", "State Level", 1, Number(1800)),
      RawRow(" Civil Engineering", "Ladies", "Open", "State Level", 1, Number(900)),
      RawRow("Computer Engineering", "General", "Open", "State Level", 2, Number(0)),
      RawRow("Information Technology", "General", "Open", "State Level", 1, Unparsable) }

Files ==
    {[exists |-> FALSE, rows |-> <<>>]} \cup
    {[exists |-> TRUE, rows |-> rs] :
        rs \in UNION {[1..n -> RowPool] : n \in 0..MaxRows}}

\* utils.py 32: pd.to_numeric(errors="coerce").fillna(fill)
to_numeric_fillna(cell, fill) == IF cell.num THEN cell.val ELSE fill

\* utils.py 34: astype(str) on the integer Round column
astype_str(n) ==
    CASE n = 1 -> "1"
      [] n = 2 -> "2"
      [] n = 3 -> "3"
      [] OTHER -> "?"

\* utils.py 40: str.strip(), on the texts that occur in the files
strip(text) ==
    CASE text = " General" -> "General"
      [] text = " Civil Engineering" -> "Civil Engineering"
      [] OTHER -> text

\* utils.py 31-40: one preprocessed row; row is its index in the frame.
preprocess(i, raw) ==
    [row |-> i,
     BranchName |-> strip(raw.BranchName),
     Quota |-> strip(raw.Quota),
     Category |-> strip(raw.Category),
     SeatType |-> strip(raw.SeatType),
     Round |-> astype_str(raw.Round),
     CutoffRank |-> to_numeric_fillna(raw.CutoffRank, Sentinel)]

\* utils.py 11-51: None (ok = FALSE) when the file cannot be read.
load_data(file) ==
    IF ~file.exists
    THEN [ok |-> FALSE, df |-> <<>>]
    ELSE [ok |-> TRUE,
          df |-> SelectSeq([i \in 1..Len(file.rows) |-> preprocess(i, file.rows[i])],
                           LAMBDA r : r.CutoffRank # Sentinel)]

\* The branch names of the files, in the order sorted() gives them.
BranchOrder ==
    <<"Civil Engineering", "Computer Engineering", "Information Technology",
      "Mechanical Engineering">>

\* utils.py 63: sorted(df["Branch name"].dropna().unique().tolist())
sorted_unique(df) ==
    SelectSeq(BranchOrder, LAMBDA b : \E i \in 1..Len(df) : df[i].BranchName = b)

\* Mutant: nothing is returned when the data cannot be loaded.
get_unique_branches_empty_on_failure(file) ==
    IF load_data(file).ok
    THEN <<"All">> \o sorted_unique(load_data(file).df)
    ELSE <<>>

\* utils.py 53-68
get_unique_branches(file) ==
    IF load_data(file).ok
    THEN <<"All">> \o sorted_unique(load_data(file).df)
    ELSE <<"All">>

----------------------------------------------------------------------------
(* generate_preference_list, stage by stage *)

max(a, b) == IF a >= b THEN a ELSE b

\* Mutant: the quota filter also loses the first matching row.
filter_quota_skip_first(df, quota) ==
    IF quota # "All"
    THEN LET kept == SelectSeq(df, LAMBDA r : r.Quota = quota)
         IN  IF kept = <<>> THEN kept ELSE Tail(kept)
    ELSE df

\* utils.py 261-263
filter_quota(df, quota) ==
    IF quota # "All" THEN SelectSeq(df, LAMBDA r : r.Quota = quota) ELSE df

\* Mutant: the category is compared with the Quota column.
filter_category_wrong_column(df, category) ==
    IF category # "All" THEN SelectSeq(df, LAMBDA r : r.Quota = category) ELSE df

\* utils.py 265-267
filter_category(df, category) ==
    IF category # "All" THEN SelectSeq(df, LAMBDA r : r.Category = category) ELSE df

\* utils.py 269-271
filter_seat_type(df, seat_type) ==
    IF seat_type # "All" THEN SelectSeq(df, LAMBDA r : r.SeatType = seat_type) ELSE df

\* utils.py 273: str(round_no) of a str is that str
filter_round(df, round_no) == SelectSeq(df, LAMBDA r : r.Round = round_no)

\* utils.py 258-273
apply_user_filters(df, a) ==
    filter_round(
        filter_seat_type(
            filter_category(filter_quota(df, a.quota), a.category),
            a.seat_type),
        a.round_no)

\* Mutant: the window has no upper end.
filter_cutoff_range_no_upper(df, a) ==
    LET min_cutoff_rank == max(1, a.student_rank - a.rank_range_lower)
    IN  SelectSeq(df, LAMBDA r : /\ r.CutoffRank >= min_cutoff_rank
                                 /\ r.CutoffRank # Sentinel)

\* Mutant: the window has no lower end.
filter_cutoff_range_no_lower(df, a) ==
    LET max_cutoff_rank == a.student_rank + a.rank_range_upper
    IN  SelectSeq(df, LAMBDA r : /\ r.CutoffRank <= max_cutoff_rank
                                 /\ r.CutoffRank # Sentinel)

\* utils.py 280-292
filter_cutoff_range(df, a) ==
    LET min_cutoff_rank == max(1, a.student_rank - a.rank_range_lower)
        max_cutoff_rank == a.student_rank + a.rank_range_upper
    IN  SelectSeq(df, LAMBDA r : /\ r.CutoffRank >= min_cutoff_rank
                                 /\ r.CutoffRank <= max_cutoff_rank
                                 /\ r.CutoffRank # Sentinel)

\* utils.py 306-311: the two added columns
add_probability(df, student_rank) ==
    [i \in 1..Len(df) |->
        LET p == calculate_admission_probability(student_rank, df[i].CutoffRank)
        IN  [row |-> df[i].row,
             Quota |-> df[i].Quota,
             Category |-> df[i].Category,
             SeatType |-> df[i].SeatType,
             Round |-> df[i].Round,
             CutoffRank |-> df[i].CutoffRank,
             AdmissionProbability |-> p,
             AdmissionChances |-> get_probability_interpretation(p)]]

\* utils.py 315
filter_min_probability(df, min_probability) ==
    SelectSeq(df, LAMBDA r : r.AdmissionProbability >= min_probability)

\* Mutant: both keys ascending (ascending=[True, True]).
sorts_before_ascending(a, b) ==
    \/ a.AdmissionProbability < b.AdmissionProbability
    \/ /\ a.AdmissionProbability = b.AdmissionProbability
       /\ a.CutoffRank < b.CutoffRank

\* utils.py 323: ascending=[False, True] on (probability, cutoff rank)
sorts_before(a, b) ==
    \/ a.AdmissionProbability > b.AdmissionProbability
    \/ /\ a.AdmissionProbability = b.AdmissionProbability
       /\ a.CutoffRank < b.CutoffRank

RECURSIVE insert_sorted(_, _)
insert_sorted(sorted, r) ==
    IF sorted = <<>> THEN <<r>>
    ELSE IF sorts_before(r, Head(sorted)) THEN <<r>> \o sorted
    ELSE <<Head(sorted)>> \o insert_sorted(Tail(sorted), r)

\* utils.py 323: sort_values on two columns is a stable (lexsort) sort
RECURSIVE sort_values(_)
sort_values(df) ==
    IF df = <<>> THEN <<>>
    ELSE insert_sorted(sort_values(SubSeq(df, 1, Len(df) - 1)), df[Len(df)])

\* utils.py 326-327: reset_index, then Preference = range(1, len(df) + 1)
add_preference(df) ==
    [i \in 1..Len(df) |->
        [Preference |-> i,
         row |-> df[i].row,
         CutoffRank |-> df[i].CutoffRank,
         AdmissionProbability |-> df[i].AdmissionProbability,
         AdmissionChances |-> df[i].AdmissionChances]]

\* Mutant: the empty histogram is given 10 bins.
empty_result_ten_bins ==
    [result |-> <<>>, plot_data |-> [x |-> <<>>, type |-> "histogram", nbinsx |-> 10]]

\* utils.py 254, 278, 298, 320, 398: the empty return value
empty_result ==
    [result |-> <<>>, plot_data |-> [x |-> <<>>, type |-> "histogram", nbinsx |-> 20]]

\* Mutant: the histogram lists the probabilities from the last record to
\* the first.
make_plot_data_reversed(result) ==
    [x |-> [i \in 1..Len(result) |-> result[Len(result) + 1 - i].AdmissionProbability],
     type |-> "histogram",
     nbinsx |-> 20,
     name |-> "Admission Probability Distribution"]

\* utils.py 353-366
make_plot_data(result) ==
    [x |-> [i \in 1..Len(result) |-> result[i].AdmissionProbability],
     type |-> "histogram",
     nbinsx |-> 20,
     name |-> "Admission Probability Distribution"]

\* Mutant: Preference is assigned before the sort.
generate_preference_list_numbered_first(file, a) ==
    LET loaded == load_data(file)
        filtered == apply_user_filters(loaded.df, a)
        in_range == filter_cutoff_range(filtered, a)
        scored == add_probability(in_range, a.student_rank)
        likely == filter_min_probability(scored, a.min_probability)
        result == sort_values(add_preference(likely))
    IN  IF ~loaded.ok THEN empty_result
        ELSE IF filtered = <<>> THEN empty_result
        ELSE IF in_range = <<>> THEN empty_result
        ELSE IF likely = <<>> THEN empty_result
        ELSE [result |-> result, plot_data |-> make_plot_data(result)]

\* utils.py 217-398
generate_preference_list(file, a) ==
    LET loaded == load_data(file)
        filtered == apply_user_filters(loaded.df, a)
        in_range == filter_cutoff_range(filtered, a)
        scored == add_probability(in_range, a.student_rank)
        likely == filter_min_probability(scored, a.min_probability)
        result == add_preference(sort_values(likely))
    IN  IF ~loaded.ok THEN empty_result
        ELSE IF filtered = <<>> THEN empty_result
        ELSE IF in_range = <<>> THEN empty_result
        ELSE IF likely = <<>> THEN empty_result
        ELSE [result |-> result, plot_data |-> make_plot_data(result)]

----------------------------------------------------------------------------
(* Validation and the /api/predict handler *)

Verdict(is_valid, error_message) == [ok |-> is_valid, msg |-> error_message]

\* Mutant: no upper limit on the rank.
validate_inputs_no_maximum(student_rank, quota, category, seat_type, round_no) ==
    IF student_rank = 0 \/ student_rank <= 0
    THEN Verdict(FALSE, "Please enter a valid MHTCET rank (greater than 0)")
    ELSE IF quota = "" THEN Verdict(FALSE, "Please select a quota")
    ELSE IF category = "" THEN Verdict(FALSE, "Please select a category")
    ELSE IF seat_type = "" THEN Verdict(FALSE, "Please select a seat type")
    ELSE IF round_no = "" THEN Verdict(FALSE, "Please select a round")
    ELSE Verdict(TRUE, "")

\* utils.py 70-103
validate_inputs(student_rank, quota, category, seat_type, round_no) ==
    IF student_rank = 0 \/ student_rank <= 0
    THEN Verdict(FALSE, "Please enter a valid MHTCET rank (greater than 0)")
    ELSE IF student_rank > 200000
    THEN Verdict(FALSE, "MHTCET rank seems too high. Please check your rank.")
    ELSE IF quota = "" THEN Verdict(FALSE, "Please select a quota")
    ELSE IF category = "" THEN Verdict(FALSE, "Please select a category")
    ELSE IF seat_type = "" THEN Verdict(FALSE, "Please select a seat type")
    ELSE IF round_no = "" THEN Verdict(FALSE, "Please select a round")
    ELSE Verdict(TRUE, "")

\* main.py 166-179: raise HTTPException(status_code=400, detail=...)
HTTPException(status_code, detail) ==
    [op |-> "predict", status |-> status_code, detail |-> detail, generated |-> FALSE]

\* main.py 205-208, 215-218: PredictionResponse(...), sent with status 200
PredictionResponse(preferences, plot_data) ==
    [op |-> "predict", status |-> 200, preferences |-> preferences,
     plot_data |-> plot_data, generated |-> TRUE]

\* main.py 151-225. generated tells whether generate_preference_list ran.
predict_preferences(file, req) ==
    LET v == validate_inputs(req.student_rank, req.quota, req.category,
                             req.seat_type, req.round_no)
        g == generate_preference_list(file, req)
    IN  IF ~v.ok THEN HTTPException(400, v.msg)
        ELSE IF req.rank_range_lower < 0
        THEN HTTPException(400, "Safe range (rank_range_lower) must be non-negative")
        ELSE IF req.rank_range_upper < 0
        THEN HTTPException(400, "Stretch range (rank_range_upper) must be non-negative")
        ELSE IF req.rank_range_lower > 5000
        THEN HTTPException(400, "Safe range too large (maximum 5000)")
        ELSE IF req.rank_range_upper > 10000
        THEN HTTPException(400, "Stretch range too large (maximum 10000)")
        ELSE IF g.result = <<>>
        THEN PredictionResponse(<<>>, [x |-> <<>>, type |-> "histogram", nbinsx |-> 20])
        ELSE PredictionResponse(g.result, g.plot_data)

\* main.py 69-77: the fields of PredictionRequest, the arguments of
\* generate_preference_list; op tells which of the two was called.
Criteria(op, sr, q, c, st, rn, mp, lo, up) ==
    [op |-> op, student_rank |-> sr, quota |-> q,
     category |-> c, seat_type |-> st, round_no |-> rn,
     min_probability |-> mp,
     rank_range_lower |-> lo,
     rank_range_upper |-> up]

\* Arguments of direct calls of generate_preference_list: student_rank > 0
\* and non-negative ranges, not otherwise validated. The upper range 999000
\* puts the sentinel inside the window; "All" is no wildcard for the round.
DirectCalls ==
    {Criteria("generate", sr, q, c, st, rn, mp, lo, up) :
        sr \in {1000, 5000}, q \in {"All", "General"}, c \in {"All", "Open"},
        st \in {"All"}, rn \in {"1", "2", "All"}, mp \in {0, 80},
        lo \in {1000, 5000}, up \in {0, 999000}}

\* The two range fields of a body: one of them out of bounds, or both at
\* their defaults, or both at their maxima.
RangePairs ==
    { <<-1, 3000>>, <<5001, 3000>>, <<1000, -1>>, <<1000, 10001>>,
      <<1000, 3000>>, <<5000, 10000>> }

\* How many of the rank, the four texts and the pair of ranges a body has
\* out of the bounds the handler tests.
WrongFields(req) ==
    (IF req.student_rank <= 0 \/ req.student_rank > 200000 THEN 1 ELSE 0)
    + (IF req.quota = "" THEN 1 ELSE 0)
    + (IF req.category = "" THEN 1 ELSE 0)
    + (IF req.seat_type = "" THEN 1 ELSE 0)
    + (IF req.round_no = "" THEN 1 ELSE 0)
    + (IF \/ req.rank_range_lower < 0 \/ req.rank_range_lower > 5000
          \/ req.rank_range_upper < 0 \/ req.rank_range_upper > 10000
       THEN 1 ELSE 0)

\* Bodies of POST /api/predict: valid and invalid values of every field,
\* with at most one field wrong at once.
PredictRequests ==
    {req \in {Criteria("predict", sr, q, c, st, rn, mp, rg[1], rg[2]) :
                 sr \in {0, 1000, 200001}, q \in {"", "General"}, c \in {"", "All"},
                 st \in {"", "State Level"}, rn \in {"", "1"}, mp \in {0, 100},
                 rg \in RangePairs} :
        WrongFields(req) <= 1}

----------------------------------------------------------------------------
(* The server at rest, while the scorer specification runs, and the scorer *)
(* at rest, while the server specification runs.                           *)

NoRequest == [op |-> "none"]
NoResponse == [op |-> "none"]

ServerIdle ==
    /\ csv = [exists |-> FALSE, rows |-> <<>>]
    /\ csv0 = csv
    /\ earlier = FALSE
    /\ phase = "idle"
    /\ request = NoRequest
    /\ response = NoResponse

ScorerIdle ==
    /\ s_pc = "done"
    /\ s_rank = 0
    /\ s_cutoff = 0
    /\ s_prob = 0
    /\ s_label = ""

----------------------------------------------------------------------------
(* SpecScore: one call of calculate_admission_probability followed by      *)
(* get_probability_interpretation (utils.py 306-311), or one call of       *)
(* get_probability_interpretation on a given probability.                  *)

InitScore ==
    /\ ServerIdle
    /\ s_label = ""
    /\ \/ /\ s_pc = "calculate"
          /\ s_rank \in 1..MaxScoreRank
          /\ s_cutoff \in ScoreCutoffs
          /\ s_prob = 0
       \/ /\ s_pc = "interpret"
          /\ s_rank = 0
          /\ s_cutoff = 0
          /\ s_prob \in 0..MaxProbability

CalculateAdmissionProbability ==
    /\ s_pc = "calculate"
    /\ s_prob' = calculate_admission_probability(s_rank, s_cutoff)
    /\ s_pc' = "interpret"
    /\ UNCHANGED <<s_rank, s_cutoff, s_label, server_vars>>

GetProbabilityInterpretation ==
    /\ s_pc = "interpret"
    /\ s_label' = get_probability_interpretation(s_prob)
    /\ s_pc' = "done"
    /\ UNCHANGED <<s_rank, s_cutoff, s_prob, server_vars>>

NextScore == CalculateAdmissionProbability \/ GetProbabilityInterpretation

SpecScore == InitScore /\ [][NextScore]_vars

----------------------------------------------------------------------------
(* Spec: the server. The file is fixed when the process starts; each call  *)
(* reads it again, answers, and keeps nothing.                             *)

Init ==
    /\ ScorerIdle
    /\ csv \in Files
    /\ csv0 = csv
    /\ earlier = FALSE
    /\ phase = "idle"
    /\ request = NoRequest
    /\ response = NoResponse

\* Mutant: the rows the categorical filters keep are written back to the
\* shared dataset (a frame kept between calls and filtered in place).
GeneratePreferenceList_in_place ==
    /\ phase = "idle"
    /\ \E a \in DirectCalls :
        /\ request' = a
        /\ response' = [op |-> "generate",
                        preferences |-> generate_preference_list(csv, a).result,
                        plot_data |-> generate_preference_list(csv, a).plot_data]
        /\ csv' = [csv EXCEPT !.rows =
                      SelectSeq(csv.rows, LAMBDA raw :
                          a.quota = "All" \/ strip(raw.Quota) = a.quota)]
    /\ phase' = "responded"
    /\ UNCHANGED <<csv0, earlier, scorer_vars>>

\* A direct call of utils.generate_preference_list (utils.py 217-398)
GeneratePreferenceList ==
    /\ phase = "idle"
    /\ \E a \in DirectCalls :
        LET returned == generate_preference_list(csv, a)
        IN  /\ request' = a
            /\ response' = [op |-> "generate",
                            preferences |-> returned.result,
                            plot_data |-> returned.plot_data]
    /\ phase' = "responded"
    /\ UNCHANGED <<csv, csv0, earlier, scorer_vars>>

\* POST /api/predict (main.py 151-225)
PredictPreferences ==
    /\ phase = "idle"
    /\ \E req \in PredictRequests :
        /\ request' = req
        /\ response' = predict_preferences(csv, req)
    /\ phase' = "responded"
    /\ UNCHANGED <<csv, csv0, earlier, scorer_vars>>

\* GET /api/branches (main.py 117-125): get_unique_branches()
GetUniqueBranches ==
    /\ phase = "idle"
    /\ request' = [op |-> "branches"]
    /\ response' = [op |-> "branches", branches |-> get_unique_branches(csv)]
    /\ phase' = "responded"
    /\ UNCHANGED <<csv, csv0, earlier, scorer_vars>>

\* The call returns: its frame, arguments and result are gone.
Return ==
    /\ phase = "responded"
    /\ phase' = "idle"
    /\ request' = NoRequest
    /\ response' = NoResponse
    /\ earlier' = TRUE
    /\ UNCHANGED <<csv, csv0, scorer_vars>>

Next == GeneratePreferenceList \/ PredictPreferences \/ GetUniqueBranches \/ Return

Spec == Init /\ [][Next]_vars

----------------------------------------------------------------------------
(* Properties of the scorer, checked under SpecScore *)

Scored == s_pc # "calculate" /\ s_rank > 0

ScoreValues == {0, 5, 10, 20, 30, 45, 60, 75, 80, 85, 90, 95}

\* The step table, written as the intervals of the signed gap it covers.
StepTable(diff) ==
    CASE diff <= -800 -> 95
      [] diff \in -799..-500 -> 90
      [] diff \in -499..-300 -> 85
      [] diff \in -299..-100 -> 80
      [] diff \in -99..0 -> 75
      [] diff \in 1..200 -> 60
      [] diff \in 201..500 -> 45
      [] diff \in 501..1000 -> 30
      [] diff \in 1001..1500 -> 20
      [] diff \in 1501..2000 -> 10
      [] diff \in 2001..3000 -> 5
      [] diff > 3000 -> 0

\* C1: for every positive student rank and every cutoff rank the score is 0
\* when the cutoff is the sentinel or 0, and otherwise the value the step
\* table gives for diff = student_rank - cutoff_rank; it is always one of
\* the twelve values 0, 5, 10, 20, 30, 45, 60, 75, 80, 85, 90, 95.
C1_StepTable ==
    Scored =>
        /\ s_prob \in ScoreValues
        /\ s_prob = IF s_cutoff = Sentinel \/ s_cutoff = 0
                    THEN 0
                    ELSE StepTable(s_rank - s_cutoff)

\* A score on the margin = 800 breakpoint of the "better" branch.
C1_Witness ==
    s_pc = "done" /\ s_rank = 100 /\ s_cutoff = 900 /\ s_prob = 95

Usable(cutoff_rank) == cutoff_rank # Sentinel /\ cutoff_rank # 0

\* C2: with a usable cutoff held fixed, no better (smaller) student rank
\* scores lower than the scored rank: the score is non-increasing in
\* student_rank - cutoff_rank, across the diff = 0 boundary too.
C2_Monotone ==
    (s_pc = "interpret" /\ s_rank > 0 /\ Usable(s_cutoff)) =>
        \A r1 \in 1..s_rank :
            calculate_admission_probability(r1, s_cutoff) >= s_prob

\* The first rank on the "worse" side of the diff = 0 boundary.
C2_Witness ==
    /\ s_pc = "interpret" /\ s_cutoff = 900 /\ s_rank = 901 /\ s_prob = 60
    /\ calculate_admission_probability(900, 900) = 75

\* The labels as the ranges of [0, 95] they cover.
Tier ==
    [l \in {"Very High Chance", "High Chance", "Good Chance", "Moderate Chance",
            "Low Chance", "Very Low Chance", "No Chance"} |->
        CASE l = "Very High Chance" -> 85..95
          [] l = "High Chance" -> 70..84
          [] l = "Good Chance" -> 50..69
          [] l = "Moderate Chance" -> 30..49
          [] l = "Low Chance" -> 15..29
          [] l = "Very Low Chance" -> 1..14
          [] l = "No Chance" -> {0}]

Labelled == s_pc = "done" /\ s_prob \in 0..95

\* C3, as stated: the labels that probabilities in [0, 95] receive are
\* exactly six tiers.
C3_SixTiers ==
    /\ Cardinality({get_probability_interpretation(p) : p \in 0..95}) = 6
    /\ Labelled => s_label \in {get_probability_interpretation(p) : p \in 0..95}

\* C3, amended: the labels partition [0, 95] into exactly seven tiers
\* (>=85, >=70, >=50, >=30, >=15, >0, else 0): a probability carries a label
\* exactly when it lies in that label's range, and every one of the seven
\* labels is the label of some valid score value.
C3_SevenTiers ==
    /\ Labelled => \A l \in DOMAIN Tier : (s_label = l) <=> (s_prob \in Tier[l])
    /\ Labelled => Cardinality({l \in DOMAIN Tier : s_prob \in Tier[l]}) = 1
    /\ {get_probability_interpretation(v) : v \in ScoreValues} = DOMAIN Tier
    /\ Cardinality({get_probability_interpretation(v) : v \in ScoreValues}) = 7

\* The seventh tier: probability 0 is labelled "No Chance".
C3_Witness ==
    s_pc = "done" /\ s_rank = 0 /\ s_prob = 0 /\ s_label = "No Chance"

\* C8, as stated: student rank 1000 against cutoff 200 scores 0, "No Chance".
C8_NoChance ==
    (s_pc = "done" /\ s_rank = 1000 /\ s_cutoff = 200) =>
        (s_prob = 0 /\ s_label = "No Chance")

\* C8, amended: student rank 1000 against cutoff 200 (diff = 800, in the
\* 501..1000 step) scores 30 and is labelled "Moderate Chance".
C8_ModerateChance ==
    (s_pc = "done" /\ s_rank = 1000 /\ s_cutoff = 200) =>
        (s_prob = 30 /\ s_label = "Moderate Chance")

C8_Witness ==
    s_pc = "done" /\ s_rank = 1000 /\ s_cutoff = 200 /\ s_label # ""

----------------------------------------------------------------------------
(* Properties of the pipeline, checked under Spec *)

\* A call that takes search criteria has been answered.
Answered == phase = "responded" /\ request.op \in {"generate", "predict"}

\* A call has returned a result set (a rejected request returns none).
HasResult ==
    /\ phase = "responded"
    /\ response.op = "generate" \/ (response.op = "predict" /\ response.status = 200)

Loaded == load_data(csv).df

\* The categorical, round and cutoff-window filters of utils.py 258-298.
Filter(df, a) == filter_cutoff_range(apply_user_filters(df, a), a)

WindowLow == IF request.student_rank - request.rank_range_lower < 1
             THEN 1
             ELSE request.student_rank - request.rank_range_lower

WindowHigh == request.student_rank + request.rank_range_upper

\* C4: for student_rank > 0 and non-negative ranges, every returned record
\* has max(1, student_rank - rank_range_lower) <= cutoff rank <=
\* student_rank + rank_range_upper, and none carries the sentinel 999999.
C4_CutoffWindow ==
    (/\ HasResult
     /\ request.student_rank > 0
     /\ request.rank_range_lower >= 0
     /\ request.rank_range_upper >= 0) =>
        \A i \in 1..Len(response.preferences) :
            /\ WindowLow <= response.preferences[i].CutoffRank
            /\ response.preferences[i].CutoffRank <= WindowHigh
            /\ response.preferences[i].CutoffRank # Sentinel

\* A non-empty result from a file with a row without cutoff and a row whose
\* cutoff lies below the window, for a window that holds the sentinel.
C4_Witness ==
    /\ HasResult
    /\ response.preferences # <<>>
    /\ \E i \in 1..Len(csv.rows) : ~csv.rows[i].CutoffRank.num
    /\ \E i \in 1..Len(csv.rows) :
        csv.rows[i].CutoffRank.num /\ csv.rows[i].CutoffRank.val < WindowLow
    /\ WindowLow <= Sentinel /\ Sentinel <= WindowHigh

\* C5: adjacent returned records i, i+1 have probability[i] >=
\* probability[i+1], and cutoff[i] <= cutoff[i+1] when the probabilities
\* are equal.
C5_SortOrder ==
    HasResult =>
        \A i \in 1..(Len(response.preferences) - 1) :
            LET a == response.preferences[i]
                b == response.preferences[i + 1]
            IN  /\ a.AdmissionProbability >= b.AdmissionProbability
                /\ a.AdmissionProbability = b.AdmissionProbability
                       => a.CutoffRank <= b.CutoffRank

\* A tie broken by cutoff rank against the order of the file, followed by a
\* lower probability.
C5_Witness ==
    /\ HasResult
    /\ Len(response.preferences) >= 3
    /\ response.preferences[1].AdmissionProbability
         = response.preferences[2].AdmissionProbability
    /\ response.preferences[1].CutoffRank < response.preferences[2].CutoffRank
    /\ response.preferences[1].row > response.preferences[2].row
    /\ response.preferences[2].AdmissionProbability
         > response.preferences[3].AdmissionProbability

\* C6: the Preference values of a result of N records are exactly 1..N, the
\* record at sorted position k has Preference k, and records dropped by the
\* minimum-probability filter take no number.
C6_PreferenceNumbers ==
    HasResult =>
        /\ \A k \in 1..Len(response.preferences) :
               response.preferences[k].Preference = k
        /\ {response.preferences[k].Preference : k \in 1..Len(response.preferences)}
               = 1..Len(response.preferences)

\* Two numbered records whose order differs from the file's, after the
\* minimum-probability filter dropped a record.
C6_Witness ==
    /\ HasResult
    /\ Len(response.preferences) >= 2
    /\ response.preferences[1].row > response.preferences[2].row
    /\ Len(Filter(Loaded, request)) > Len(response.preferences)

\* C7: filtering an already-filtered record set with the same criteria
\* yields the same records.
C7_FilterIdempotent ==
    (Answered /\ csv.exists) =>
        Filter(Filter(Loaded, request), request) = Filter(Loaded, request)

\* A filter that drops some records and keeps others.
C7_Witness ==
    /\ Answered
    /\ csv.exists
    /\ Len(Filter(Loaded, request)) >= 2
    /\ Len(Filter(Loaded, request)) < Len(Loaded)

NoUserMatch == apply_user_filters(Loaded, request) = <<>>
NoneInWindow == Filter(Loaded, request) = <<>>
NoneLikely ==
    filter_min_probability(
        add_probability(Filter(Loaded, request), request.student_rank),
        request.min_probability) = <<>>

\* C9: when a stage leaves no rows (no categorical or round match, no
\* cutoff in the window, no record reaching min_probability) the call
\* returns an empty result set and a histogram with an empty value list and
\* 20 bins, and the handler answers 200, not an error.
C9_EmptyResult ==
    (/\ Answered
     /\ request.op = "generate" \/ response.generated
     /\ NoUserMatch \/ NoneInWindow \/ NoneLikely) =>
        /\ response.preferences = <<>>
        /\ response.plot_data.x = <<>>
        /\ response.plot_data.nbinsx = 20
        /\ response.op = "predict" => response.status = 200

\* Records pass every filter and none reaches min_probability.
C9_Witness ==
    /\ phase = "responded"
    /\ request.op = "generate"
    /\ ~NoneInWindow
    /\ NoneLikely
    /\ response.preferences = <<>>

InBounds(req) ==
    /\ req.student_rank > 0
    /\ req.student_rank <= 200000
    /\ req.quota # ""
    /\ req.category # ""
    /\ req.seat_type # ""
    /\ req.round_no # ""
    /\ req.rank_range_lower \in 0..5000
    /\ req.rank_range_upper \in 0..10000
    /\ req.rank_range_lower + req.rank_range_upper <= 15000

\* C10: a request outside the bounds is rejected with a message, without
\* generate_preference_list running and without preferences; a request for
\* which generate_preference_list runs is inside the bounds.
C10_Rejected ==
    (phase = "responded" /\ request.op = "predict") =>
        /\ ~InBounds(request) =>
               /\ response.status = 400
               /\ response.detail # ""
               /\ ~response.generated
               /\ "preferences" \notin DOMAIN response
        /\ response.generated => InBounds(request)

\* A rank above 200000 is the only thing wrong with the request.
C10_Witness ==
    /\ phase = "responded"
    /\ request.op = "predict"
    /\ request.student_rank > 200000
    /\ InBounds([request EXCEPT !.student_rank = 1000])
    /\ response.status = 400

\* C11: when the file cannot be read load_data returns None, and then
\* generate_preference_list returns an empty result set with an empty
\* histogram value list and get_unique_branches returns exactly ["All"];
\* with or without data the branch list begins with "All".
C11_NoData ==
    /\ load_data(csv).ok = csv.exists
    /\ (/\ Answered
        /\ ~csv.exists
        /\ request.op = "generate" \/ response.generated) =>
           /\ response.preferences = <<>>
           /\ response.plot_data.x = <<>>
    /\ (phase = "responded" /\ request.op = "branches") =>
           /\ response.branches # <<>>
           /\ Head(response.branches) = "All"
           /\ ~csv.exists => response.branches = <<"All">>

\* The branch list asked for while the file is missing.
C11_Witness ==
    /\ phase = "responded"
    /\ request.op = "branches"
    /\ ~csv.exists
    /\ response.branches = <<"All">>

\* C12: calls share no mutable state. The dataset is what it was when the
\* process started, nothing of an earlier call is left once it has returned,
\* and so every answer is the one the same criteria would get from the first
\* call of the process (records, order, preference numbers, histogram).
C12_Independent ==
    /\ csv = csv0
    /\ phase = "idle" => (request = NoRequest /\ response = NoResponse)
    /\ (phase = "responded" /\ request.op = "generate") =>
           /\ response.preferences = generate_preference_list(csv0, request).result
           /\ response.plot_data = generate_preference_list(csv0, request).plot_data
    /\ (phase = "responded" /\ request.op = "predict") =>
           response = predict_preferences(csv0, request)

\* A call answered with records after an earlier call has returned.
C12_Witness ==
    /\ earlier
    /\ HasResult
    /\ response.preferences # <<>>

\* The conjunction of the predicates on one loaded record.
Matches(r, a) ==
    /\ a.quota = "All" \/ r.Quota = a.quota
    /\ a.category = "All" \/ r.Category = a.category
    /\ a.seat_type = "All" \/ r.SeatType = a.seat_type
    /\ r.Round = a.round_no
    /\ r.CutoffRank >= (IF a.student_rank - a.rank_range_lower < 1
                        THEN 1 ELSE a.student_rank - a.rank_range_lower)
    /\ r.CutoffRank <= a.student_rank + a.rank_range_upper
    /\ r.CutoffRank # Sentinel
    /\ calculate_admission_probability(a.student_rank, r.CutoffRank)
           >= a.min_probability

\* The narrowing passes of utils.py 258-298 in the opposite order.
FilterReversed(df, a) ==
    filter_quota(
        filter_category(
            filter_seat_type(
                filter_round(filter_cutoff_range(df, a), a.round_no),
                a.seat_type),
            a.category),
        a.quota)

\* C13: the result holds exactly one scored record for every loaded record
\* that satisfies all predicates (quota, category, seat type equal or "All";
\* round equal, with no wildcard; cutoff in the window and not the sentinel;
\* probability >= min_probability) and no other record, and the order of the
\* narrowing passes does not change the records kept.
C13_ExactlyMatching ==
    HasResult =>
        LET want == {i \in 1..Len(Loaded) : Matches(Loaded[i], request)}
            got == response.preferences
        IN  /\ {got[k].row : k \in 1..Len(got)} = {Loaded[i].row : i \in want}
            /\ Len(got) = Cardinality(want)
            /\ \A k \in 1..Len(got) : \E i \in want :
                   /\ got[k].row = Loaded[i].row
                   /\ got[k].CutoffRank = Loaded[i].CutoffRank
            /\ FilterReversed(Loaded, request) = Filter(Loaded, request)

\* Quota and category both asked for: some loaded records are returned and
\* others are not.
C13_Witness ==
    /\ HasResult
    /\ request.quota # "All"
    /\ request.category # "All"
    /\ response.preferences # <<>>
    /\ Len(response.preferences) < Len(Loaded)

\* C14: for a non-empty result of N records the histogram's value list is
\* the N returned probabilities in preference order (so non-increasing and
\* each >= min_probability), with 20 bins and no aggregation.
C14_Histogram ==
    (HasResult /\ response.preferences # <<>>) =>
        LET x == response.plot_data.x
            got == response.preferences
        IN  /\ Len(x) = Len(got)
            /\ \A k \in 1..Len(got) :
                   /\ got[k].Preference = k
                   /\ x[k] = got[k].AdmissionProbability
                   /\ x[k] >= request.min_probability
            /\ \A k \in 1..(Len(x) - 1) : x[k] >= x[k + 1]
            /\ response.plot_data.nbinsx = 20

\* Three values, two of them equal: nothing is merged.
C14_Witness ==
    /\ HasResult
    /\ Len(response.preferences) = 3
    /\ response.plot_data.x = <<95, 95, 60>>

Diff(k) == request.student_rank - response.preferences[k].CutoffRank

LowerReach == IF request.rank_range_lower <= request.student_rank - 1
              THEN request.rank_range_lower
              ELSE request.student_rank - 1

\* C15: every returned record has -rank_range_upper <= student_rank -
\* cutoff rank <= min(rank_range_lower, student_rank - 1); with
\* rank_range_lower <= 1000 every returned record has probability >= 30 and
\* a label no worse than "Moderate Chance", and a returned record has
\* probability 0 / "No Chance" only when rank_range_lower > 3000.
C15_LowerDeltaFloor ==
    HasResult =>
        \A k \in 1..Len(response.preferences) :
            /\ -request.rank_range_upper <= Diff(k)
            /\ Diff(k) <= LowerReach
            /\ request.rank_range_lower <= 1000 =>
                   /\ response.preferences[k].AdmissionProbability >= 30
                   /\ response.preferences[k].AdmissionChances \in
                          {"Very High Chance", "High Chance", "Good Chance",
                           "Moderate Chance"}
            /\ (\/ response.preferences[k].AdmissionProbability = 0
                \/ response.preferences[k].AdmissionChances = "No Chance") =>
                   request.rank_range_lower > 3000

\* A record with probability 0 is returned for a lower delta of 5000.
C15_Witness ==
    /\ HasResult
    /\ request.rank_range_lower > 3000
    /\ \E k \in 1..Len(response.preferences) :
           /\ response.preferences[k].AdmissionProbability = 0
           /\ response.preferences[k].AdmissionChances = "No Chance"
           /\ Diff(k) > 3000

====
